---- MODULE Spec2Model ----
(***************************************************************************)
(* Model of the wallet service (package wallet): the in-memory ledger      *)
(* (accounts, payments, favorites), its two persistence formats and the    *)
(* parallel aggregation routine SumPayments.                               *)
(*                                                                         *)
(* Go strings are modelled as sequences of one-character strings, so that  *)
(* formatting, splitting and parsing are computed character by character.  *)
(* Money and IDs are mathematical integers; every amount of the model is   *)
(* far inside the int64 range, so no operation wraps around.               *)
(***************************************************************************)
EXTENDS Integers, Sequences, FiniteSets, TLC

\* ------------------------------------------------------------------ bounds
MaxAccounts == 2      \* accounts held by the service
MaxPayments == 2      \* payments held by the service
MaxFavorites == 1     \* favorites held by the service
MaxBalance == 2       \* credits are explored up to this balance
MaxWorkers == 3       \* SumPayments is called with 0 .. MaxWorkers goroutines
MaxSumLen == 3        \* SumPayments is called on up to MaxSumLen payments
MaxEntities == 2      \* lookups are tried on collections of up to MaxEntities entities

\* ------------------------------------------------------------------ inputs
Phones == { <<"7">>, <<"8">>, <<";">>, <<"|">> }
PlainPhones == { <<"7">>, <<"8">> }
Amounts == { -1, 0, 1, 2 }
AccountIDs == 1 .. (MaxAccounts + 1)
Categories == { <<"c">> }
FavoriteNames == { <<"n">> }

\* ------------------------------------------------------------------ errors
NoErr == "nil"
ErrPhoneRegistered == "phone already registred"
ErrAmountMustBePositive == "amount must be greater than zero"
ErrAccountNotFound == "account not found"
ErrNotEnoughtBalance == "account not enough balance"
ErrPaymentNotFound == "payment not found"
ErrFavoriteNotFound == "favorite not found"
ErrFileNotFound == "file not fount"
ErrSyntax == "strconv: invalid syntax"
PanicIndex == "panic: index out of range"

\* types.PaymentStatusInProgress, types.PaymentStatusFail
PaymentStatusInProgress == <<"I", "N", "P", "R", "O", "G", "R", "E", "S", "S">>
PaymentStatusFail == <<"F", "A", "I", "L">>

\* ------------------------------------------------------------------ state
VARIABLES
    nextAccountID,   \* Service.nextAccountID
    accounts,        \* Service.accounts: sequence of [ID, Phone, Balance]
    payments,        \* Service.payments: sequence of [ID, AccountID, Amount, Category, Status]
    favorites,       \* Service.favorites: sequence of [ID, AccountID, Name, Amount, Category]
    uuids,           \* number of identifiers uuid.New() has handed out
    last,            \* the last call: its name and the error it returned
    deposited,       \* history: per account (by position), the sum of its successful deposits
    refunded,        \* history: per account (by position), the sum credited by successful Reject calls
    fs,              \* the files on disk, by name: whether each exists, and its bytes
    fresh,           \* the accounts of a second, newly constructed Service
    goroutines,      \* SumPayments: its argument
    kol,             \* SumPayments: the chunk size
    loop_i,          \* SumPayments: the loop variable i, shared with the last worker
    wg,              \* SumPayments: the WaitGroup counter
    mu,              \* SumPayments: the worker holding the Mutex, 0 when it is free
    sum,             \* SumPayments: the shared accumulator
    workers,         \* SumPayments: the spawned goroutines, in spawning order
    pc,              \* SumPayments: where the calling goroutine is
    result,          \* SumPayments: the value returned
    found            \* the entity the last lookup returned: its position, 0 for nil

svc == <<nextAccountID, accounts, payments, favorites>>
persist == <<fs, fresh>>
agg == <<goroutines, kol, loop_i, wg, mu, sum, workers, pc, result>>
vars == <<nextAccountID, accounts, payments, favorites, uuids, last, deposited, refunded,
          fs, fresh, goroutines, kol, loop_i, wg, mu, sum, workers, pc, result, found>>

\* ------------------------------------------------------------------ helpers
Min(a, b) == IF a < b THEN a ELSE b

\* A finished call: the operation's name and the error it returned.
Call(op, err) == [op |-> op, err |-> err]

Letters == <<"a", "b", "c", "d", "e", "f", "g", "h">>

\* uuid.New().String(): the n-th identifier handed out; identifiers never repeat.
UUID(n) == <<Letters[n]>>

\* Index of the first account with the given ID, 0 when there is none.
AccountIndex(accs, accountID) ==
    IF \E i \in 1 .. Len(accs) : accs[i].ID = accountID
    THEN CHOOSE i \in 1 .. Len(accs) :
            /\ accs[i].ID = accountID
            /\ \A j \in 1 .. (i - 1) : accs[j].ID # accountID
    ELSE 0

\* The payment lookup returning at its first match, as the other two lookups do.
PaymentIndexFirst(pays, paymentID) ==
    IF \E i \in 1 .. Len(pays) : pays[i].ID = paymentID
    THEN CHOOSE i \in 1 .. Len(pays) :
            /\ pays[i].ID = paymentID
            /\ \A j \in 1 .. (i - 1) : pays[j].ID # paymentID
    ELSE 0

\* Index of the last payment with the given ID, 0 when there is none.
PaymentIndex(pays, paymentID) ==
    IF \E i \in 1 .. Len(pays) : pays[i].ID = paymentID
    THEN CHOOSE i \in 1 .. Len(pays) :
            /\ pays[i].ID = paymentID
            /\ \A j \in (i + 1) .. Len(pays) : pays[j].ID # paymentID
    ELSE 0

\* Index of the first favorite with the given ID, 0 when there is none.
FavoriteIndex(favs, favoriteID) ==
    IF \E i \in 1 .. Len(favs) : favs[i].ID = favoriteID
    THEN CHOOSE i \in 1 .. Len(favs) :
            /\ favs[i].ID = favoriteID
            /\ \A j \in 1 .. (i - 1) : favs[j].ID # favoriteID
    ELSE 0

\* ------------------------------------------------------------------ strings
Digits == <<"0", "1", "2", "3", "4", "5", "6", "7", "8", "9">>

IsDigit(c) == \E d \in 1 .. 10 : Digits[d] = c

DigitValue(c) == (CHOOSE d \in 1 .. 10 : Digits[d] = c) - 1

RECURSIVE FormatNat(_)
FormatNat(n) ==
    IF n < 10 THEN <<Digits[n + 1]>>
    ELSE FormatNat(n \div 10) \o <<Digits[(n % 10) + 1]>>

\* strconv.Itoa, fmt.Sprint of an integer: the decimal digits, "-" first when negative.
Itoa(n) == IF n < 0 THEN <<"-">> \o FormatNat(-n) ELSE FormatNat(n)

RECURSIVE ParseNat(_, _)
ParseNat(s, acc) ==
    IF s = <<>> THEN acc ELSE ParseNat(Tail(s), (acc * 10) + DigitValue(Head(s)))

\* strconv.Atoi, strconv.ParseInt(s, 10, 64): an optional sign, then one or more
\* decimal digits; anything else is a syntax error.
Atoi(s) ==
    LET signed == s # <<>> /\ Head(s) \in {"+", "-"}
        body == IF signed THEN Tail(s) ELSE s
    IN  IF body = <<>> \/ \E i \in 1 .. Len(body) : ~IsDigit(body[i])
        THEN [err |-> ErrSyntax, val |-> 0]
        ELSE [err |-> NoErr,
              val |-> IF signed /\ Head(s) = "-" THEN -ParseNat(body, 0)
                      ELSE ParseNat(body, 0)]

\* strings.Split(s, sep) for a one-character separator: the pieces between the
\* separators, so one piece more than there are separators.
RECURSIVE Split(_, _)
Split(s, sep) ==
    IF \E i \in 1 .. Len(s) : s[i] = sep
    THEN LET k == CHOOSE i \in 1 .. Len(s) :
                    s[i] = sep /\ \A j \in 1 .. (i - 1) : s[j] # sep
         IN  <<SubSeq(s, 1, k - 1)>> \o Split(SubSeq(s, k + 1, Len(s)), sep)
    ELSE <<s>>

\* accounts[:len(accounts)-1] under the guard len(accounts) > 0
DropLast(pieces) ==
    IF Len(pieces) > 0 THEN SubSeq(pieces, 1, Len(pieces) - 1) ELSE pieces

IDs == { UUID(n) : n \in 1 .. (MaxPayments + MaxFavorites + 1) }

\* The sum of the Amount fields of a sequence of payments.
RECURSIVE SumAmount(_)
SumAmount(pays) ==
    IF pays = <<>> THEN 0 ELSE Head(pays).Amount + SumAmount(Tail(pays))

\* ------------------------------------------------------------------ files
ExportTxt == "export.txt"
AccountsDump == "accounts.dump"
PaymentsDump == "payments.dump"
FavoritesDump == "favorites.dump"
FileNames == {ExportTxt, AccountsDump, PaymentsDump, FavoritesDump}

NoFile == [exists |-> FALSE, data |-> <<>>]
File(data) == [exists |-> TRUE, data |-> data]

\* SumPayments is not running.
AggIdle ==
    /\ goroutines = 0
    /\ kol = 0
    /\ loop_i = 0
    /\ wg = 0
    /\ mu = 0
    /\ sum = 0
    /\ workers = <<>>
    /\ pc = "idle"
    /\ result = 0

\* ------------------------------------------------------------------ ledger
Init ==
    /\ nextAccountID = 0
    /\ accounts = <<>>
    /\ payments = <<>>
    /\ favorites = <<>>
    /\ uuids = 0
    /\ last = Call("new", NoErr)
    /\ deposited = <<>>
    /\ refunded = <<>>
    /\ fs = [name \in FileNames |-> NoFile]
    /\ fresh = <<>>
    /\ found = 0
    /\ AggIdle

\* RegisterAccount incrementing the counter before it scans for the phone.
RegisterAccountCountsFirst(phone) ==
    IF \E k \in 1 .. Len(accounts) : accounts[k].Phone = phone
    THEN /\ last' = Call("RegisterAccount", ErrPhoneRegistered)
         /\ nextAccountID' = nextAccountID + 1
         /\ UNCHANGED <<persist, agg, found, accounts, payments, favorites, uuids, deposited, refunded>>
    ELSE /\ Len(accounts) < MaxAccounts
         /\ nextAccountID' = nextAccountID + 1
         /\ accounts' = Append(accounts,
                [ID |-> nextAccountID + 1, Phone |-> phone, Balance |-> 0])
         /\ deposited' = Append(deposited, 0)
         /\ refunded' = Append(refunded, 0)
         /\ last' = Call("RegisterAccount", NoErr)
         /\ UNCHANGED <<persist, agg, found, payments, favorites, uuids>>

\* Service.RegisterAccount
RegisterAccount(phone) ==
    IF \E i \in 1 .. Len(accounts) : accounts[i].Phone = phone
    THEN /\ last' = Call("RegisterAccount", ErrPhoneRegistered)
         /\ UNCHANGED <<persist, agg, found, svc, uuids, deposited, refunded>>
    ELSE /\ Len(accounts) < MaxAccounts
         /\ nextAccountID' = nextAccountID + 1
         /\ accounts' = Append(accounts,
                [ID |-> nextAccountID + 1, Phone |-> phone, Balance |-> 0])
         /\ deposited' = Append(deposited, 0)
         /\ refunded' = Append(refunded, 0)
         /\ last' = Call("RegisterAccount", NoErr)
         /\ UNCHANGED <<persist, agg, found, payments, favorites, uuids>>

\* Pay without the balance check.
PayCallNoBalanceCheck(accountID, amount, category) ==
    LET a == AccountIndex(accounts, accountID)
        unchanged == [accounts |-> accounts, payments |-> payments, uuids |-> uuids]
    IN  IF amount <= 0
        THEN [err |-> ErrAmountMustBePositive] @@ unchanged
        ELSE IF a = 0
        THEN [err |-> ErrAccountNotFound] @@ unchanged
        ELSE [err |-> NoErr,
              accounts |-> [accounts EXCEPT ![a].Balance = @ - amount],
              payments |-> Append(payments,
                    [ID |-> UUID(uuids + 1), AccountID |-> accountID,
                     Amount |-> amount, Category |-> category,
                     Status |-> PaymentStatusInProgress]),
              uuids |-> uuids + 1]

\* Pay debiting the account before it checks the balance.
PayCallDebitFirst(accountID, amount, category) ==
    LET a == AccountIndex(accounts, accountID)
        unchanged == [accounts |-> accounts, payments |-> payments, uuids |-> uuids]
        debited == [accounts EXCEPT ![a].Balance = @ - amount]
    IN  IF amount <= 0
        THEN [err |-> ErrAmountMustBePositive] @@ unchanged
        ELSE IF a = 0
        THEN [err |-> ErrAccountNotFound] @@ unchanged
        ELSE IF accounts[a].Balance < amount
        THEN [err |-> ErrNotEnoughtBalance, accounts |-> debited,
              payments |-> payments, uuids |-> uuids]
        ELSE [err |-> NoErr,
              accounts |-> debited,
              payments |-> Append(payments,
                    [ID |-> UUID(uuids + 1), AccountID |-> accountID,
                     Amount |-> amount, Category |-> category,
                     Status |-> PaymentStatusInProgress]),
              uuids |-> uuids + 1]

\* Pay looking the account up before it checks the amount.
PayCallLookupFirst(accountID, amount, category) ==
    LET a == AccountIndex(accounts, accountID)
        unchanged == [accounts |-> accounts, payments |-> payments, uuids |-> uuids]
    IN  IF a = 0
        THEN [err |-> ErrAccountNotFound] @@ unchanged
        ELSE IF amount <= 0
        THEN [err |-> ErrAmountMustBePositive] @@ unchanged
        ELSE IF accounts[a].Balance < amount
        THEN [err |-> ErrNotEnoughtBalance] @@ unchanged
        ELSE [err |-> NoErr,
              accounts |-> [accounts EXCEPT ![a].Balance = @ - amount],
              payments |-> Append(payments,
                    [ID |-> UUID(uuids + 1), AccountID |-> accountID,
                     Amount |-> amount, Category |-> category,
                     Status |-> PaymentStatusInProgress]),
              uuids |-> uuids + 1]

\* The body of Service.Pay: the error it returns and the collections it leaves.
PayCall(accountID, amount, category) ==
    LET a == AccountIndex(accounts, accountID)
        unchanged == [accounts |-> accounts, payments |-> payments, uuids |-> uuids]
    IN  IF amount <= 0
        THEN [err |-> ErrAmountMustBePositive] @@ unchanged
        ELSE IF a = 0
        THEN [err |-> ErrAccountNotFound] @@ unchanged
        ELSE IF accounts[a].Balance < amount
        THEN [err |-> ErrNotEnoughtBalance] @@ unchanged
        ELSE [err |-> NoErr,
              accounts |-> [accounts EXCEPT ![a].Balance = @ - amount],
              payments |-> Append(payments,
                    [ID |-> UUID(uuids + 1), AccountID |-> accountID,
                     Amount |-> amount, Category |-> category,
                     Status |-> PaymentStatusInProgress]),
              uuids |-> uuids + 1]

\* A call of Pay made under the name op (Pay itself, Repeat, PayFromFavorite).
PayAs(op, accountID, amount, category) ==
    LET r == PayCall(accountID, amount, category)
    IN  /\ r.err = NoErr => Len(payments) < MaxPayments
        /\ last' = Call(op, r.err)
        /\ accounts' = r.accounts
        /\ payments' = r.payments
        /\ uuids' = r.uuids
        /\ UNCHANGED <<persist, agg, found, nextAccountID, favorites, deposited, refunded>>

\* Service.Pay
Pay(accountID, amount, category) ==
    PayAs("Pay", accountID, amount, category)

\* Deposit crediting the first account of the service, not the one looked up.
DepositCreditsFirst(accountID, amount) ==
    LET a == AccountIndex(accounts, accountID)
        err == IF amount < 0 THEN ErrAmountMustBePositive
               ELSE IF a = 0 THEN ErrAccountNotFound
               ELSE NoErr
    IN  /\ last' = Call("Deposit", err)
        /\ IF err = NoErr
           THEN /\ accounts[1].Balance + amount <= MaxBalance
                /\ accounts' = [accounts EXCEPT ![1].Balance = @ + amount]
                /\ deposited' = [deposited EXCEPT ![a] = @ + amount]
           ELSE UNCHANGED <<accounts, deposited>>
        /\ UNCHANGED <<persist, agg, found, nextAccountID, payments, favorites, uuids, refunded>>

\* Service.Deposit (with Service.FindAccountByID)
Deposit(accountID, amount) ==
    LET a == AccountIndex(accounts, accountID)
        err == IF amount < 0 THEN ErrAmountMustBePositive
               ELSE IF a = 0 THEN ErrAccountNotFound
               ELSE NoErr
    IN  /\ last' = Call("Deposit", err)
        /\ IF err = NoErr
           THEN /\ accounts[a].Balance + amount <= MaxBalance
                /\ accounts' = [accounts EXCEPT ![a].Balance = @ + amount]
                /\ deposited' = [deposited EXCEPT ![a] = @ + amount]
           ELSE UNCHANGED <<persist, agg, found, accounts, deposited>>
        /\ UNCHANGED <<persist, agg, found, nextAccountID, payments, favorites, uuids, refunded>>

\* Reject refunding only a payment that is still in progress.
RejectOnce(paymentID) ==
    LET p == PaymentIndex(payments, paymentID)
        a == IF p = 0 THEN 0 ELSE AccountIndex(accounts, payments[p].AccountID)
        err == IF p = 0 THEN ErrPaymentNotFound
               ELSE IF a = 0 THEN ErrAccountNotFound
               ELSE NoErr
    IN  /\ last' = Call("Reject", err)
        /\ IF err = NoErr /\ payments[p].Status = PaymentStatusInProgress
           THEN /\ accounts[a].Balance + payments[p].Amount <= MaxBalance
                /\ payments' = [payments EXCEPT ![p].Status = PaymentStatusFail]
                /\ accounts' = [accounts EXCEPT ![a].Balance = @ + payments[p].Amount]
                /\ refunded' = [refunded EXCEPT ![a] = @ + payments[p].Amount]
           ELSE UNCHANGED <<accounts, payments, refunded>>
        /\ UNCHANGED <<persist, agg, found, nextAccountID, favorites, uuids, deposited>>

\* Reject flipping the status without the refund.
RejectNoRefund(paymentID) ==
    LET p == PaymentIndex(payments, paymentID)
        a == IF p = 0 THEN 0 ELSE AccountIndex(accounts, payments[p].AccountID)
        err == IF p = 0 THEN ErrPaymentNotFound
               ELSE IF a = 0 THEN ErrAccountNotFound
               ELSE NoErr
    IN  /\ last' = Call("Reject", err)
        /\ IF err = NoErr
           THEN /\ payments' = [payments EXCEPT ![p].Status = PaymentStatusFail]
                /\ refunded' = [refunded EXCEPT ![a] = @ + payments[p].Amount]
           ELSE UNCHANGED <<payments, refunded>>
        /\ UNCHANGED <<persist, agg, found, nextAccountID, accounts, favorites, uuids, deposited>>

\* Service.Reject (with Service.FindPaymentByID, Service.FindAccountByID)
Reject(paymentID) ==
    LET p == PaymentIndex(payments, paymentID)
        a == IF p = 0 THEN 0 ELSE AccountIndex(accounts, payments[p].AccountID)
        err == IF p = 0 THEN ErrPaymentNotFound
               ELSE IF a = 0 THEN ErrAccountNotFound
               ELSE NoErr
    IN  /\ last' = Call("Reject", err)
        /\ IF err = NoErr
           THEN /\ accounts[a].Balance + payments[p].Amount <= MaxBalance
                /\ payments' = [payments EXCEPT ![p].Status = PaymentStatusFail]
                /\ accounts' = [accounts EXCEPT ![a].Balance = @ + payments[p].Amount]
                /\ refunded' = [refunded EXCEPT ![a] = @ + payments[p].Amount]
           ELSE UNCHANGED <<persist, agg, found, accounts, payments, refunded>>
        /\ UNCHANGED <<persist, agg, found, nextAccountID, favorites, uuids, deposited>>

\* Repeat refusing a payment that was rejected.
RepeatInProgressOnly(paymentID) ==
    LET p == PaymentIndex(payments, paymentID)
    IN  IF p = 0 \/ payments[p].Status # PaymentStatusInProgress
        THEN /\ last' = Call("Repeat", ErrPaymentNotFound)
             /\ UNCHANGED <<persist, agg, found, svc, uuids, deposited, refunded>>
        ELSE PayAs("Repeat", payments[p].AccountID, payments[p].Amount,
                   payments[p].Category)

\* Service.Repeat
Repeat(paymentID) ==
    LET p == PaymentIndex(payments, paymentID)
    IN  IF p = 0
        THEN /\ last' = Call("Repeat", ErrPaymentNotFound)
             /\ UNCHANGED <<persist, agg, found, svc, uuids, deposited, refunded>>
        ELSE PayAs("Repeat", payments[p].AccountID, payments[p].Amount,
                   payments[p].Category)

\* Service.FavoritePayment
FavoritePayment(paymentID, name) ==
    LET p == PaymentIndex(payments, paymentID)
    IN  IF p = 0
        THEN /\ last' = Call("FavoritePayment", ErrPaymentNotFound)
             /\ UNCHANGED <<persist, agg, found, svc, uuids, deposited, refunded>>
        ELSE /\ Len(favorites) < MaxFavorites
             /\ favorites' = Append(favorites,
                    [ID |-> UUID(uuids + 1), AccountID |-> payments[p].AccountID,
                     Name |-> name, Amount |-> payments[p].Amount,
                     Category |-> payments[p].Category])
             /\ uuids' = uuids + 1
             /\ last' = Call("FavoritePayment", NoErr)
             /\ UNCHANGED <<persist, agg, found, nextAccountID, accounts, payments, deposited, refunded>>

\* Service.PayFromFavorite
PayFromFavorite(favoriteID) ==
    LET f == FavoriteIndex(favorites, favoriteID)
    IN  IF f = 0
        THEN /\ last' = Call("PayFromFavorite", ErrFavoriteNotFound)
             /\ UNCHANGED <<persist, agg, found, svc, uuids, deposited, refunded>>
        ELSE PayAs("PayFromFavorite", favorites[f].AccountID,
                   favorites[f].Amount, favorites[f].Category)

Next ==
    \/ \E phone \in PlainPhones : RegisterAccount(phone)
    \/ \E accountID \in AccountIDs, amount \in Amounts, category \in Categories :
            Pay(accountID, amount, category)
    \/ \E accountID \in AccountIDs, amount \in Amounts : Deposit(accountID, amount)
    \/ \E paymentID \in IDs : Reject(paymentID)
    \/ \E paymentID \in IDs : Repeat(paymentID)
    \/ \E paymentID \in IDs, name \in FavoriteNames : FavoritePayment(paymentID, name)
    \/ \E favoriteID \in IDs : PayFromFavorite(favoriteID)

Spec == Init /\ [][Next]_vars

\* ------------------------------------------------------------------ persistence
\* The history sequences, extended with zeros for accounts that were not registered.
Pad(h, n) == h \o [k \in 1 .. (n - Len(h)) |-> 0]

\* No index-out-of-range panic has ended the process.
Running == last.err # PanicIndex

\* The string ExportToFile builds: <ID>;<Phone>;<Balance>| for every account.
RECURSIVE ExportData(_)
ExportData(accs) ==
    IF accs = <<>> THEN <<>>
    ELSE Itoa(Head(accs).ID) \o <<";">> \o Head(accs).Phone \o <<";">>
            \o Itoa(Head(accs).Balance) \o <<"|">> \o ExportData(Tail(accs))

\* Service.ExportToFile; canOpen: whether os.Create succeeds. Writes to a file
\* that was opened succeed.
ExportToFile(canOpen) ==
    /\ IF canOpen
       THEN /\ fs' = [fs EXCEPT ![ExportTxt] = File(ExportData(accounts))]
            /\ last' = Call("ExportToFile", NoErr)
       ELSE /\ fs' = fs
            /\ last' = Call("ExportToFile", ErrFileNotFound)
    /\ UNCHANGED <<svc, uuids, deposited, refunded, fresh, agg, found>>

BufSize == 4

\* The read loop of ImportFromFile: BufSize bytes at a time until EOF.
RECURSIVE ReadAll(_)
ReadAll(data) ==
    IF data = <<>> THEN <<>>
    ELSE SubSeq(data, 1, Min(BufSize, Len(data)))
            \o ReadAll(SubSeq(data, Min(BufSize, Len(data)) + 1, Len(data)))

\* The record loop of ImportFromFile: every record appends an account; a record
\* that does not parse ends the call and keeps what was appended before it.
RECURSIVE ImportRecords(_, _)
ImportRecords(accs, recs) ==
    IF recs = <<>> THEN [err |-> NoErr, accounts |-> accs]
    ELSE LET splits == Split(Head(recs), ";")
             id == Atoi(splits[1])
         IN  IF id.err # NoErr THEN [err |-> id.err, accounts |-> accs]
             ELSE IF Len(splits) < 3 THEN [err |-> PanicIndex, accounts |-> accs]
             ELSE LET balance == Atoi(splits[3])
                  IN  IF balance.err # NoErr
                      THEN [err |-> balance.err, accounts |-> accs]
                      ELSE ImportRecords(
                                Append(accs, [ID |-> id.val, Phone |-> splits[2],
                                              Balance |-> balance.val]),
                                Tail(recs))

\* An import that appends nothing unless every record parses.
ImportFromFileCallAtomic(accs, file) ==
    IF ~file.exists THEN [err |-> ErrFileNotFound, accounts |-> accs]
    ELSE LET r == ImportRecords(accs, DropLast(Split(ReadAll(file.data), "|")))
         IN  IF r.err = NoErr THEN r ELSE [err |-> r.err, accounts |-> accs]

\* The body of Service.ImportFromFile on a service holding the accounts accs.
ImportFromFileCall(accs, file) ==
    IF ~file.exists THEN [err |-> ErrFileNotFound, accounts |-> accs]
    ELSE ImportRecords(accs, DropLast(Split(ReadAll(file.data), "|")))

\* Service.ImportFromFile
ImportFromFile ==
    LET r == ImportFromFileCall(accounts, fs[ExportTxt])
    IN  /\ Len(r.accounts) <= 2 * MaxAccounts
        /\ accounts' = r.accounts
        /\ deposited' = Pad(deposited, Len(r.accounts))
        /\ refunded' = Pad(refunded, Len(r.accounts))
        /\ last' = Call("ImportFromFile", r.err)
        /\ UNCHANGED <<nextAccountID, payments, favorites, uuids, fs, fresh, agg, found>>

\* Service.ImportFromFile called on a second, newly constructed Service.
ImportFromFileFresh ==
    LET r == ImportFromFileCall(<<>>, fs[ExportTxt])
    IN  /\ fresh' = r.accounts
        /\ last' = Call("ImportFromFileFresh", r.err)
        /\ UNCHANGED <<svc, uuids, deposited, refunded, fs, agg, found>>

\* The lines Export writes to accounts.dump, payments.dump and favorites.dump.
RECURSIVE AccountsData(_)
AccountsData(accs) ==
    IF accs = <<>> THEN <<>>
    ELSE Itoa(Head(accs).ID) \o <<";">> \o Head(accs).Phone \o <<";">>
            \o Itoa(Head(accs).Balance) \o <<"\n">> \o AccountsData(Tail(accs))

RECURSIVE PaymentsData(_)
PaymentsData(pays) ==
    IF pays = <<>> THEN <<>>
    ELSE Head(pays).ID \o <<";">> \o Itoa(Head(pays).AccountID) \o <<";">>
            \o Itoa(Head(pays).Amount) \o <<";">> \o Head(pays).Category \o <<";">>
            \o Head(pays).Status \o <<"\n">> \o PaymentsData(Tail(pays))

RECURSIVE FavoritesData(_)
FavoritesData(favs) ==
    IF favs = <<>> THEN <<>>
    ELSE Head(favs).ID \o <<";">> \o Itoa(Head(favs).AccountID) \o <<";">>
            \o Itoa(Head(favs).Amount) \o <<";">> \o Head(favs).Category
            \o <<"\n">> \o FavoritesData(Tail(favs))

\* Service.Export; canOpen: whether os.OpenFile succeeds in the directory. The
\* error of OpenFile is never checked: the write to a nil file does nothing and
\* Export returns nil all the same.
Export(canOpen) ==
    /\ fs' = [name \in FileNames |->
                IF canOpen /\ name = AccountsDump /\ Len(accounts) > 0
                THEN File(AccountsData(accounts))
                ELSE IF canOpen /\ name = PaymentsDump /\ Len(payments) > 0
                THEN File(PaymentsData(payments))
                ELSE IF canOpen /\ name = FavoritesDump /\ Len(favorites) > 0
                THEN File(FavoritesData(favorites))
                ELSE fs[name]]
    /\ last' = Call("Export", NoErr)
    /\ UNCHANGED <<svc, uuids, deposited, refunded, fresh, agg, found>>

\* The accounts loop of Import appending every record, as ImportFromFile does.
RECURSIVE MergeAccountsAlwaysAppend(_, _)
MergeAccountsAlwaysAppend(accs, lines) ==
    IF lines = <<>> THEN [err |-> NoErr, items |-> accs]
    ELSE LET f == Split(Head(lines), ";")
             id == Atoi(f[1])
         IN  IF id.err # NoErr THEN [err |-> id.err, items |-> accs]
             ELSE IF Len(f) < 3 THEN [err |-> PanicIndex, items |-> accs]
             ELSE LET balance == Atoi(f[3])
                  IN  IF balance.err # NoErr
                      THEN [err |-> balance.err, items |-> accs]
                      ELSE MergeAccountsAlwaysAppend(
                            Append(accs, [ID |-> id.val, Phone |-> f[2],
                                          Balance |-> balance.val]),
                            Tail(lines))

\* The accounts loop of Import: a record whose ID is held overwrites the phone and
\* balance of every account with that ID, any other record appends an account.
RECURSIVE MergeAccounts(_, _)
MergeAccounts(accs, lines) ==
    IF lines = <<>> THEN [err |-> NoErr, items |-> accs]
    ELSE LET f == Split(Head(lines), ";")
             id == Atoi(f[1])
         IN  IF id.err # NoErr THEN [err |-> id.err, items |-> accs]
             ELSE IF Len(f) < 3 THEN [err |-> PanicIndex, items |-> accs]
             ELSE LET balance == Atoi(f[3])
                  IN  IF balance.err # NoErr
                      THEN [err |-> balance.err, items |-> accs]
                      ELSE MergeAccounts(
                            IF \E k \in 1 .. Len(accs) : accs[k].ID = id.val
                            THEN [k \in 1 .. Len(accs) |->
                                    IF accs[k].ID = id.val
                                    THEN [accs[k] EXCEPT !.Phone = f[2],
                                                         !.Balance = balance.val]
                                    ELSE accs[k]]
                            ELSE Append(accs, [ID |-> id.val, Phone |-> f[2],
                                               Balance |-> balance.val]),
                            Tail(lines))

\* The first index of pays that holds the ID, 0 when none does.
FirstPaymentWith(pays, id) ==
    IF \E k \in 1 .. Len(pays) : pays[k].ID = id
    THEN CHOOSE k \in 1 .. Len(pays) :
            /\ pays[k].ID = id
            /\ \A j \in 1 .. k - 1 : pays[j].ID # id
    ELSE 0

\* The payments loop of Import. A record of fewer than five fields panics where
\* its category or status is read: before the append when no payment holds its
\* ID, else at the first payment holding it, whose account, amount and (given
\* four fields) category have been written by then.
RECURSIVE MergePayments(_, _)
MergePayments(pays, lines) ==
    IF lines = <<>> THEN [err |-> NoErr, items |-> pays]
    ELSE LET f == Split(Head(lines), ";")
         IN  IF Len(f) < 2 THEN [err |-> PanicIndex, items |-> pays]
             ELSE LET aid == Atoi(f[2])
         IN  IF aid.err # NoErr THEN [err |-> aid.err, items |-> pays]
             ELSE IF Len(f) < 3 THEN [err |-> PanicIndex, items |-> pays]
             ELSE LET amount == Atoi(f[3])
                      first == FirstPaymentWith(pays, f[1])
         IN  IF amount.err # NoErr THEN [err |-> amount.err, items |-> pays]
             ELSE IF Len(f) < 5 /\ first = 0
             THEN [err |-> PanicIndex, items |-> pays]
             ELSE IF Len(f) < 4
             THEN [err |-> PanicIndex,
                   items |-> [pays EXCEPT ![first].AccountID = aid.val,
                                          ![first].Amount = amount.val]]
             ELSE IF Len(f) < 5
             THEN [err |-> PanicIndex,
                   items |-> [pays EXCEPT ![first].AccountID = aid.val,
                                          ![first].Amount = amount.val,
                                          ![first].Category = f[4]]]
             ELSE MergePayments(
                    IF first # 0
                    THEN [k \in 1 .. Len(pays) |->
                            IF pays[k].ID = f[1]
                            THEN [pays[k] EXCEPT !.AccountID = aid.val,
                                                 !.Amount = amount.val,
                                                 !.Category = f[4],
                                                 !.Status = f[5]]
                            ELSE pays[k]]
                    ELSE Append(pays, [ID |-> f[1], AccountID |-> aid.val,
                                       Amount |-> amount.val, Category |-> f[4],
                                       Status |-> f[5]]),
                    Tail(lines))

\* The first index of favs that holds the ID, 0 when none does.
FirstFavoriteWith(favs, id) ==
    IF \E k \in 1 .. Len(favs) : favs[k].ID = id
    THEN CHOOSE k \in 1 .. Len(favs) :
            /\ favs[k].ID = id
            /\ \A j \in 1 .. k - 1 : favs[j].ID # id
    ELSE 0

\* The favorites loop of Import; the dump holds no name. A record of three
\* fields panics where its category is read: before the append when no favorite
\* holds its ID, else at the first favorite holding it, whose account and amount
\* have been written by then.
RECURSIVE MergeFavorites(_, _)
MergeFavorites(favs, lines) ==
    IF lines = <<>> THEN [err |-> NoErr, items |-> favs]
    ELSE LET f == Split(Head(lines), ";")
         IN  IF Len(f) < 2 THEN [err |-> PanicIndex, items |-> favs]
             ELSE LET aid == Atoi(f[2])
         IN  IF aid.err # NoErr THEN [err |-> aid.err, items |-> favs]
             ELSE IF Len(f) < 3 THEN [err |-> PanicIndex, items |-> favs]
             ELSE LET amount == Atoi(f[3])
                      first == FirstFavoriteWith(favs, f[1])
         IN  IF amount.err # NoErr THEN [err |-> amount.err, items |-> favs]
             ELSE IF Len(f) < 4 /\ first = 0
             THEN [err |-> PanicIndex, items |-> favs]
             ELSE IF Len(f) < 4
             THEN [err |-> PanicIndex,
                   items |-> [favs EXCEPT ![first].AccountID = aid.val,
                                          ![first].Amount = amount.val]]
             ELSE MergeFavorites(
                    IF first # 0
                    THEN [k \in 1 .. Len(favs) |->
                            IF favs[k].ID = f[1]
                            THEN [favs[k] EXCEPT !.AccountID = aid.val,
                                                 !.Amount = amount.val,
                                                 !.Category = f[4]]
                            ELSE favs[k]]
                    ELSE Append(favs, [ID |-> f[1], AccountID |-> aid.val,
                                       Name |-> <<>>, Amount |-> amount.val,
                                       Category |-> f[4]]),
                    Tail(lines))

\* The records Import reads from a dump: none when the dump does not exist
\* (os.Stat fails), else its lines without the piece after the last "\n".
DumpLines(file) ==
    IF file.exists THEN DropLast(Split(file.data, "\n")) ELSE <<>>

\* The body of Service.Import: the three dumps in turn, ending at the first error.
ImportCall ==
    LET a == MergeAccounts(accounts, DumpLines(fs[AccountsDump]))
        p == MergePayments(payments, DumpLines(fs[PaymentsDump]))
        f == MergeFavorites(favorites, DumpLines(fs[FavoritesDump]))
    IN  IF a.err # NoErr
        THEN [err |-> a.err, accounts |-> a.items, payments |-> payments,
              favorites |-> favorites]
        ELSE IF p.err # NoErr
        THEN [err |-> p.err, accounts |-> a.items, payments |-> p.items,
              favorites |-> favorites]
        ELSE [err |-> f.err, accounts |-> a.items, payments |-> p.items,
              favorites |-> f.items]

\* Service.Import
Import ==
    LET r == ImportCall
    IN  /\ Len(r.accounts) <= 2 * MaxAccounts
        /\ Len(r.payments) <= MaxPayments
        /\ Len(r.favorites) <= MaxFavorites
        /\ accounts' = r.accounts
        /\ payments' = r.payments
        /\ favorites' = r.favorites
        /\ deposited' = Pad(deposited, Len(r.accounts))
        /\ refunded' = Pad(refunded, Len(r.accounts))
        /\ last' = Call("Import", r.err)
        /\ UNCHANGED <<nextAccountID, uuids, fs, fresh, agg, found>>

\* The account sequences RegisterAccount and Deposit build: IDs 1, 2, ... in
\* order, pairwise distinct phones, balances that deposits have built.
DepositedBalances == {0, 12}

RegisteredAccounts ==
    UNION { { [k \in 1 .. n |-> [ID |-> k, Phone |-> ph[k], Balance |-> bal[k]]] :
                ph \in { f \in [1 .. n -> Phones] :
                            \A x, y \in 1 .. n : x # y => f[x] # f[y] },
                bal \in [1 .. n -> DepositedBalances] } :
            n \in 0 .. MaxAccounts }

\* An export.txt written by another program: its second record has an ID that
\* is not an integer.
ForeignExport == <<"9", ";", "7", ";", "5", "|", "x", ";", "8", ";", "0", "|">>

\* A service after registrations and deposits; it has written no file, and
\* export.txt is absent or, for a service of at most one account, the file of
\* another program.
InitPersist ==
    \E accs \in RegisteredAccounts, file \in {NoFile, File(ForeignExport)} :
        /\ file # NoFile => Len(accs) <= 1
        /\ nextAccountID = Len(accs)
        /\ accounts = accs
        /\ payments = <<>>
        /\ favorites = <<>>
        /\ uuids = 0
        /\ last = Call("new", NoErr)
        /\ deposited = [k \in 1 .. Len(accs) |-> accs[k].Balance]
        /\ refunded = [k \in 1 .. Len(accs) |-> 0]
        /\ fs = [name \in FileNames |-> IF name = ExportTxt THEN file ELSE NoFile]
        /\ fresh = <<>>
        /\ found = 0
        /\ AggIdle

NextPersist ==
    \/ Running /\ \E phone \in Phones : RegisterAccount(phone)
    \/ Running /\ \E canOpen \in BOOLEAN : ExportToFile(canOpen)
    \/ Running /\ ImportFromFile
    \/ Running /\ ImportFromFileFresh
    \/ Running /\ \E canOpen \in BOOLEAN : Export(canOpen)
    \/ Running /\ Import

SpecPersist == InitPersist /\ [][NextPersist]_vars

\* ------------------------------------------------------------------ dumps
\* Phones of the services that dump: a phone may hold the field separator.
DumpPhones == PlainPhones \cup { <<"7", ";", "5">> }

\* The services RegisterAccount, Deposit, Pay and FavoritePayment build: n
\* accounts with IDs 1 .. n and distinct phones, the second one holding 12, then
\* m payments made in turn by the accounts (payment k of amount k), then f
\* favorites made from the first payment.
LedgerStates ==
    UNION { UNION { UNION {
        { [accounts |-> [k \in 1 .. n |->
                            [ID |-> k, Phone |-> ph[k],
                             Balance |-> IF k = 2 THEN 12 ELSE 0]],
           payments |-> [k \in 1 .. m |->
                            [ID |-> UUID(k), AccountID |-> ((k - 1) % n) + 1,
                             Amount |-> k, Category |-> <<"c">>,
                             Status |-> PaymentStatusInProgress]],
           favorites |-> [k \in 1 .. f |->
                            [ID |-> UUID(m + k), AccountID |-> 1, Name |-> <<"n">>,
                             Amount |-> 1, Category |-> <<"c">>]]] :
            ph \in { g \in [1 .. n -> DumpPhones] :
                        \A x, y \in 1 .. n : x # y => g[x] # g[y] } } :
        f \in 0 .. (IF m = 0 THEN 0 ELSE MaxFavorites) } :
        m \in 0 .. (IF n = 0 THEN 0 ELSE MaxPayments) } :
        n \in 0 .. Min(MaxAccounts, Cardinality(DumpPhones)) }

\* The export.txt an earlier service of one account (ID 1, phone "9", balance 5)
\* left in the directory with ExportToFile.
EarlierExport == <<"1", ";", "9", ";", "5", "|">>

\* A service after ledger operations, in a directory that holds no dump and the
\* export.txt of an earlier service.
InitDump ==
    \E s \in LedgerStates :
        /\ nextAccountID = Len(s.accounts)
        /\ accounts = s.accounts
        /\ payments = s.payments
        /\ favorites = s.favorites
        /\ uuids = Len(s.payments) + Len(s.favorites)
        /\ last = Call("new", NoErr)
        /\ deposited = [k \in 1 .. Len(s.accounts) |-> 0]
        /\ refunded = [k \in 1 .. Len(s.accounts) |-> 0]
        /\ fs = [name \in FileNames |->
                    IF name = ExportTxt THEN File(EarlierExport) ELSE NoFile]
        /\ fresh = <<>>
        /\ found = 0
        /\ AggIdle

\* &Service{}: a newly constructed service takes the place of the old one; the
\* files stay, and so do the identifiers uuid.New() has handed out.
NewService ==
    /\ nextAccountID' = 0
    /\ accounts' = <<>>
    /\ payments' = <<>>
    /\ favorites' = <<>>
    /\ deposited' = <<>>
    /\ refunded' = <<>>
    /\ last' = Call("new", NoErr)
    /\ UNCHANGED <<uuids, persist, agg, found>>

\* The refunds on record stay within the balances explored.
RefundsBounded == \A a \in 1 .. Len(refunded) : refunded[a] <= MaxBalance

\* The accounts held stay within the number explored.
AccountsBounded == Len(accounts) <= MaxAccounts

NextDump ==
    \/ Running /\ \E canOpen \in BOOLEAN : Export(canOpen)
    \/ Running /\ Import
    \/ Running /\ ImportFromFile /\ AccountsBounded'
    \/ Running /\ \E k \in 1 .. Len(payments) :
                    Reject(payments[k].ID) /\ RefundsBounded'
    \/ Running /\ RegisterAccount(<<"8">>)
    \/ Running /\ NewService

SpecDump == InitDump /\ [][NextDump]_vars

\* ------------------------------------------------------------------ lookups
\* Collections put together by hand, as a test of the package does: the IDs are
\* free to repeat, and the k-th entity is told from the others by its amount
\* or balance k.
AccountLists ==
    UNION { { [k \in 1 .. n |-> [ID |-> ids[k], Phone |-> <<Digits[k + 1]>>,
                                 Balance |-> k]] :
                ids \in [1 .. n -> 1 .. 2] } : n \in 0 .. MaxEntities }

PaymentLists ==
    UNION { { [k \in 1 .. n |-> [ID |-> ids[k], AccountID |-> 1, Amount |-> k,
                                 Category |-> <<"c">>,
                                 Status |-> PaymentStatusInProgress]] :
                ids \in [1 .. n -> {UUID(1), UUID(2)}] } : n \in 0 .. MaxEntities }

FavoriteLists ==
    UNION { { [k \in 1 .. n |-> [ID |-> ids[k], AccountID |-> 1, Name |-> <<"n">>,
                                 Amount |-> k, Category |-> <<"c">>]] :
                ids \in [1 .. n -> {UUID(1), UUID(2)}] } : n \in 0 .. MaxEntities }

InitFind ==
    \E accs \in AccountLists, pays \in PaymentLists, favs \in FavoriteLists :
        /\ nextAccountID = 0
        /\ accounts = accs
        /\ payments = pays
        /\ favorites = favs
        /\ uuids = 2
        /\ last = Call("new", NoErr)
        /\ deposited = [k \in 1 .. Len(accs) |-> 0]
        /\ refunded = [k \in 1 .. Len(accs) |-> 0]
        /\ fs = [name \in FileNames |-> NoFile]
        /\ fresh = <<>>
        /\ found = 0
        /\ AggIdle

\* Service.FindAccountByID
FindAccountByID(accountID) ==
    LET a == AccountIndex(accounts, accountID)
    IN  /\ found' = a
        /\ last' = Call("FindAccountByID",
                        IF a = 0 THEN ErrAccountNotFound ELSE NoErr)
        /\ UNCHANGED <<svc, uuids, deposited, refunded, persist, agg>>

\* Service.FindPaymentByID
FindPaymentByID(paymentID) ==
    LET p == PaymentIndex(payments, paymentID)
    IN  /\ found' = p
        /\ last' = Call("FindPaymentByID",
                        IF p = 0 THEN ErrPaymentNotFound ELSE NoErr)
        /\ UNCHANGED <<svc, uuids, deposited, refunded, persist, agg>>

\* Service.FindFavoriteByID
FindFavoriteByID(favoriteID) ==
    LET f == FavoriteIndex(favorites, favoriteID)
    IN  /\ found' = f
        /\ last' = Call("FindFavoriteByID",
                        IF f = 0 THEN ErrFavoriteNotFound ELSE NoErr)
        /\ UNCHANGED <<svc, uuids, deposited, refunded, persist, agg>>

NextFind ==
    \/ \E accountID \in AccountIDs : FindAccountByID(accountID)
    \/ \E paymentID \in IDs : FindPaymentByID(paymentID)
    \/ \E favoriteID \in IDs : FindFavoriteByID(favoriteID)

SpecFind == InitFind /\ [][NextFind]_vars

\* ------------------------------------------------------------------ SumPayments
ExampleAmounts == <<100, 250, 50, 10, 5>>
SumAmounts == {1, 2}

RECURSIVE SeqSum(_)
SeqSum(ns) == IF ns = <<>> THEN 0 ELSE Head(ns) + SeqSum(Tail(ns))

\* The payment sequences SumPayments is called on.
AmountSeqs ==
    UNION { [1 .. n -> SumAmounts] : n \in 0 .. MaxSumLen } \cup {ExampleAmounts}

\* A service whose one account has made the payments of the given amounts.
InitSum ==
    \E amts \in AmountSeqs, g \in 0 .. MaxWorkers :
        /\ nextAccountID = 1
        /\ accounts = <<[ID |-> 1, Phone |-> <<"7">>, Balance |-> 0]>>
        /\ payments = [k \in 1 .. Len(amts) |->
                [ID |-> UUID(k), AccountID |-> 1, Amount |-> amts[k],
                 Category |-> <<"c">>, Status |-> PaymentStatusInProgress]]
        /\ favorites = <<>>
        /\ uuids = Len(amts)
        /\ last = Call("SumPayments", NoErr)
        /\ deposited = <<SeqSum(amts)>>
        /\ refunded = <<0>>
        /\ fs = [name \in FileNames |-> NoFile]
        /\ fresh = <<>>
        /\ found = 0
        /\ goroutines = g
        /\ kol = 0
        /\ loop_i = 0
        /\ wg = 0
        /\ mu = 0
        /\ sum = 0
        /\ workers = <<>>
        /\ pc = "start"
        /\ result = 0

ledger == <<nextAccountID, accounts, payments, favorites, uuids, last, deposited, refunded>>

\* kol: the whole length for 0 goroutines, else the integer quotient.
ChunkSize(n, g) == IF g = 0 THEN n ELSE n \div g

\* SumPayments, up to the loop: sum, kol and i are set.
Begin ==
    /\ pc = "start"
    /\ sum' = 0
    /\ kol' = ChunkSize(Len(payments), goroutines)
    /\ loop_i' = 0
    /\ pc' = "loop"
    /\ UNCHANGED <<ledger, persist, found, goroutines, wg, mu, workers, result>>

Worker(index, final) ==
    [at |-> "slice", index |-> index, final |-> final, lo |-> 0, hi |-> 0,
     val |-> 0, reg |-> 0]

\* One turn of the loop: wg.Add(1) and go func(index int) {...}(i).
Spawn ==
    /\ pc = "loop"
    /\ loop_i < goroutines - 1
    /\ wg' = wg + 1
    /\ workers' = Append(workers, Worker(loop_i, FALSE))
    /\ loop_i' = loop_i + 1
    /\ UNCHANGED <<ledger, persist, found, goroutines, kol, mu, sum, pc, result>>

\* After the loop: wg.Add(1) and the goroutine of the last chunk.
SpawnLast ==
    /\ pc = "loop"
    /\ ~(loop_i < goroutines - 1)
    /\ wg' = wg + 1
    /\ workers' = Append(workers, Worker(loop_i, TRUE))
    /\ pc' = "wait"
    /\ UNCHANGED <<ledger, persist, found, goroutines, kol, loop_i, mu, sum, result>>

\* The last goroutine taking one chunk of kol payments like the others.
ChunkDropsRemainder(w) ==
    IF workers[w].final
    THEN [lo |-> loop_i * kol, hi |-> (loop_i + 1) * kol]
    ELSE [lo |-> workers[w].index * kol, hi |-> (workers[w].index + 1) * kol]

\* The bounds [lo, hi) of a goroutine's slice expression: payments[index*kol :
\* (index+1)*kol] in the loop's goroutines, payments[i*kol:] in the last one.
Chunk(w) ==
    IF workers[w].final
    THEN [lo |-> loop_i * kol, hi |-> Len(payments)]
    ELSE [lo |-> workers[w].index * kol, hi |-> (workers[w].index + 1) * kol]

\* A goroutine slices the payments and adds up its chunk into val.
WorkerSum(w) ==
    LET c == Chunk(w)
    IN  /\ workers[w].at = "slice"
        /\ IF 0 <= c.lo /\ c.lo <= c.hi /\ c.hi <= Len(payments)
           THEN workers' = [workers EXCEPT ![w].at = "lock", ![w].lo = c.lo,
                                ![w].hi = c.hi,
                                ![w].val = SumAmount(SubSeq(payments, c.lo + 1, c.hi))]
           ELSE workers' = [workers EXCEPT ![w].at = "panic"]
        /\ UNCHANGED <<ledger, persist, found, goroutines, kol, loop_i, wg, mu, sum, pc, result>>

\* A lock that lets a goroutine in while another one holds it.
WorkerLockNoWait(w) ==
    /\ workers[w].at = "lock"
    /\ mu' = w
    /\ workers' = [workers EXCEPT ![w].at = "read"]
    /\ UNCHANGED <<ledger, persist, found, goroutines, kol, loop_i, wg, sum, pc, result>>

\* mu.Lock()
WorkerLock(w) ==
    /\ workers[w].at = "lock"
    /\ mu = 0
    /\ mu' = w
    /\ workers' = [workers EXCEPT ![w].at = "read"]
    /\ UNCHANGED <<ledger, persist, found, goroutines, kol, loop_i, wg, sum, pc, result>>

\* sum += val, the read of sum
WorkerRead(w) ==
    /\ workers[w].at = "read"
    /\ workers' = [workers EXCEPT ![w].at = "write", ![w].reg = sum]
    /\ UNCHANGED <<ledger, persist, found, goroutines, kol, loop_i, wg, mu, sum, pc, result>>

\* sum = val in place of sum += val
WorkerWriteOverwrites(w) ==
    /\ workers[w].at = "write"
    /\ sum' = workers[w].val
    /\ workers' = [workers EXCEPT ![w].at = "unlock"]
    /\ UNCHANGED <<ledger, persist, found, goroutines, kol, loop_i, wg, mu, pc, result>>

\* sum += val, the write of sum
WorkerWrite(w) ==
    /\ workers[w].at = "write"
    /\ sum' = workers[w].reg + workers[w].val
    /\ workers' = [workers EXCEPT ![w].at = "unlock"]
    /\ UNCHANGED <<ledger, persist, found, goroutines, kol, loop_i, wg, mu, pc, result>>

\* A goroutine leaving the section without mu.Unlock().
WorkerUnlockKeepsLock(w) ==
    /\ workers[w].at = "unlock"
    /\ workers' = [workers EXCEPT ![w].at = "exit"]
    /\ UNCHANGED <<ledger, persist, found, goroutines, kol, loop_i, wg, mu, sum, pc, result>>

\* mu.Unlock()
WorkerUnlock(w) ==
    /\ workers[w].at = "unlock"
    /\ mu' = 0
    /\ workers' = [workers EXCEPT ![w].at = "exit"]
    /\ UNCHANGED <<ledger, persist, found, goroutines, kol, loop_i, wg, sum, pc, result>>

\* the deferred wg.Done()
WorkerDone(w) ==
    /\ workers[w].at = "exit"
    /\ wg' = wg - 1
    /\ workers' = [workers EXCEPT ![w].at = "done"]
    /\ UNCHANGED <<ledger, persist, found, goroutines, kol, loop_i, mu, sum, pc, result>>

\* A return that does not wait for the goroutines.
WaitNoJoin ==
    /\ pc = "wait"
    /\ result' = sum
    /\ pc' = "returned"
    /\ UNCHANGED <<ledger, persist, found, goroutines, kol, loop_i, wg, mu, sum, workers>>

\* wg.Wait() and the return of sum
Wait ==
    /\ pc = "wait"
    /\ wg = 0
    /\ result' = sum
    /\ pc' = "returned"
    /\ UNCHANGED <<ledger, persist, found, goroutines, kol, loop_i, wg, mu, sum, workers>>

NextSum ==
    \/ Begin
    \/ Spawn
    \/ SpawnLast
    \/ \E w \in 1 .. Len(workers) : WorkerSum(w)
    \/ \E w \in 1 .. Len(workers) : WorkerLock(w)
    \/ \E w \in 1 .. Len(workers) : WorkerRead(w)
    \/ \E w \in 1 .. Len(workers) : WorkerWrite(w)
    \/ \E w \in 1 .. Len(workers) : WorkerUnlock(w)
    \/ \E w \in 1 .. Len(workers) : WorkerDone(w)
    \/ Wait

SpecSum == InitSum /\ [][NextSum]_vars

\* The Go scheduler runs some goroutine that can run: the caller and the
\* goroutines it spawned do not all stand still while one of them has a step.
SpecSumFair == SpecSum /\ WF_vars(NextSum)

\* Registration, deposits, payments and rejections only.
NextCore ==
    \/ \E phone \in PlainPhones : RegisterAccount(phone)
    \/ \E accountID \in AccountIDs, amount \in Amounts, category \in Categories :
            Pay(accountID, amount, category)
    \/ \E accountID \in AccountIDs, amount \in Amounts : Deposit(accountID, amount)
    \/ \E paymentID \in IDs : Reject(paymentID)

SpecCore == Init /\ [][NextCore]_vars


\* ------------------------------------------------------------------ claims
\* The payments of account number a (by position) that have the given status.
PaymentsOf(a, status) ==
    LET Mine(p) == p.AccountID = accounts[a].ID /\ p.Status = status
    IN  SelectSeq(payments, Mine)

\* C1 as stated: the balance of every account is its initial balance (0 at
\* registration) plus its deposits, minus the amounts of its payments that were
\* never rejected, plus the amounts of its payments that were rejected.
C1_BalanceAsStated ==
    \A a \in 1 .. Len(accounts) :
        accounts[a].Balance =
            ((0 + deposited[a]) - SumAmount(PaymentsOf(a, PaymentStatusInProgress)))
            + SumAmount(PaymentsOf(a, PaymentStatusFail))

\* C1 as amended: the balance of every account is its initial balance (0) plus its
\* deposits, minus the amounts of all its payments (rejected or not), plus the
\* amount refunded by every successful Reject call.
C1_Accounting ==
    \A a \in 1 .. Len(accounts) :
        accounts[a].Balance =
            (((0 + deposited[a]) - SumAmount(PaymentsOf(a, PaymentStatusInProgress)))
             - SumAmount(PaymentsOf(a, PaymentStatusFail)))
            + refunded[a]

\* An account with deposits, a payment never rejected and a rejected payment.
C1_Witness ==
    \E a \in 1 .. Len(accounts) :
        /\ deposited[a] > 0
        /\ PaymentsOf(a, PaymentStatusInProgress) # <<>>
        /\ PaymentsOf(a, PaymentStatusFail) # <<>>
        /\ last = Call("Reject", NoErr)

\* C2: a Reject call on a payment whose status is already Fail succeeds, leaves
\* the status Fail and credits the payment's amount to the owning account again.
C2_RejectNotIdempotent ==
    [][\A paymentID \in IDs :
        LET p == PaymentIndex(payments, paymentID)
            a == IF p = 0 THEN 0 ELSE AccountIndex(accounts, payments[p].AccountID)
        IN  (/\ last'.op = "Reject"
             /\ p # 0
             /\ a # 0
             /\ payments[p].Status = PaymentStatusFail
             /\ Reject(paymentID))
            => /\ last' = Call("Reject", NoErr)
               /\ payments' = payments
               /\ accounts' = [accounts EXCEPT ![a].Balance = @ + payments[p].Amount]
               /\ refunded' = [refunded EXCEPT ![a] = @ + payments[p].Amount]]_vars

\* One payment of amount m, rejected twice: refunds of 2 * m against deposits of m.
C2_Witness ==
    /\ Len(payments) = 1
    /\ payments[1].Status = PaymentStatusFail
    /\ last = Call("Reject", NoErr)
    /\ \E a \in 1 .. Len(accounts) :
        /\ accounts[a].ID = payments[1].AccountID
        /\ refunded[a] = 2 * payments[1].Amount
        /\ accounts[a].Balance = deposited[a] + payments[1].Amount

\* C3: no account balance is ever negative.
C3_BalanceNonNegative ==
    \A a \in 1 .. Len(accounts) : accounts[a].Balance >= 0

\* A repeated payment refused on an account that earlier payments emptied.
C3_Witness ==
    /\ last = Call("Repeat", ErrNotEnoughtBalance)
    /\ \E a \in 1 .. Len(accounts) :
        /\ accounts[a].Balance = 0
        /\ PaymentsOf(a, PaymentStatusInProgress) # <<>>

\* C4: Pay with amount > 0 on an existing account succeeds exactly when the
\* balance covers the amount; a success debits exactly the amount from that
\* account and appends one InProgress payment with an unused ID; every failing
\* Pay leaves accounts, payments and favorites as they were.
C4_Pay ==
    [][\A accountID \in AccountIDs, amount \in Amounts, category \in Categories :
        LET a == AccountIndex(accounts, accountID)
        IN  (last'.op = "Pay" /\ Pay(accountID, amount, category)) =>
            /\ (amount > 0 /\ a # 0) =>
                    ((last'.err = NoErr) <=> (accounts[a].Balance >= amount))
            /\ last'.err = NoErr =>
                    /\ accounts' = [accounts EXCEPT ![a].Balance = @ - amount]
                    /\ Len(payments') = Len(payments) + 1
                    /\ SubSeq(payments', 1, Len(payments)) = payments
                    /\ payments'[Len(payments')].Status = PaymentStatusInProgress
                    /\ payments'[Len(payments')].AccountID = accountID
                    /\ payments'[Len(payments')].Amount = amount
                    /\ \A j \in 1 .. Len(payments) :
                            payments[j].ID # payments'[Len(payments')].ID
                    /\ favorites' = favorites
            /\ last'.err # NoErr =>
                    /\ last'.err \in {ErrAmountMustBePositive, ErrAccountNotFound,
                                      ErrNotEnoughtBalance}
                    /\ UNCHANGED <<accounts, payments, favorites>>]_vars

\* A second successful payment, made while a favorite exists.
C4_Witness ==
    /\ last = Call("Pay", NoErr)
    /\ Len(payments) = 2
    /\ Len(favorites) = 1

\* C5: Pay with amount <= 0 fails with AmountMustBePositive whether or not the
\* account exists; Deposit with amount < 0 fails the same way; Deposit of 0 on an
\* existing account succeeds and changes no balance.  Each case is written in
\* contrapositive form: a step with any other outcome is not that call.
C5_AmountChecks ==
    [][/\ (last'.op = "Pay" /\ ~(last'.err = ErrAmountMustBePositive /\ UNCHANGED svc))
            => \A accountID \in AccountIDs, amount \in Amounts, category \in Categories :
                    amount <= 0 => ~Pay(accountID, amount, category)
       /\ (last'.op = "Deposit" /\ ~(last'.err = ErrAmountMustBePositive /\ UNCHANGED svc))
            => \A accountID \in AccountIDs, amount \in Amounts :
                    amount < 0 => ~Deposit(accountID, amount)
       /\ (last'.op = "Deposit" /\ ~(last'.err = NoErr /\ UNCHANGED svc))
            => \A accountID \in AccountIDs :
                    AccountIndex(accounts, accountID) # 0 => ~Deposit(accountID, 0)]_vars

\* Pay refused for its amount on a service that holds no account at all.
C5_Witness ==
    /\ last = Call("Pay", ErrAmountMustBePositive)
    /\ accounts = <<>>

\* C6: RegisterAccount with a phone some account already has fails with
\* PhoneAlreadyRegistered and changes neither the accounts nor the counter;
\* otherwise it appends one account with balance 0 whose ID is the counter plus one.
C6_RegisterAccount ==
    [][\A phone \in Phones :
        (last'.op = "RegisterAccount" /\ RegisterAccount(phone)) =>
            IF \E k \in 1 .. Len(accounts) : accounts[k].Phone = phone
            THEN /\ last' = Call("RegisterAccount", ErrPhoneRegistered)
                 /\ accounts' = accounts
                 /\ nextAccountID' = nextAccountID
            ELSE /\ last' = Call("RegisterAccount", NoErr)
                 /\ accounts' = Append(accounts,
                        [ID |-> nextAccountID + 1, Phone |-> phone, Balance |-> 0])
                 /\ nextAccountID' = nextAccountID + 1]_vars

\* A registration refused for its phone while two accounts are held.
C6_Witness ==
    /\ last = Call("RegisterAccount", ErrPhoneRegistered)
    /\ Len(accounts) = 2
    /\ nextAccountID = 2

\* C7 as stated: no two accounts held by the service have the same ID.
C7_UniqueAccountIDs ==
    \A x, y \in 1 .. Len(accounts) : x # y => accounts[x].ID # accounts[y].ID

\* C8: whatever the number of goroutines and however they interleave,
\* SumPayments returns the sum of the Amount of every payment.
C8_SumPayments ==
    pc = "returned" => result = SumAmount(payments)

\* The payments 100, 250, 50, 10, 5 summed by 3 goroutines: 415.
C8_Witness ==
    /\ pc = "returned"
    /\ goroutines = 3
    /\ [k \in 1 .. Len(payments) |-> payments[k].Amount] = ExampleAmounts
    /\ result = 415

\* The goroutines that have evaluated their slice expression.
Sliced == { w \in 1 .. Len(workers) : workers[w].at # "slice" }

\* C9: once all goroutines are spawned there are goroutines of them (one for 0);
\* each but the last takes exactly floor(len/goroutines) payments, the last takes
\* all the rest, and every payment index lies in exactly one chunk.
C9_Chunks ==
    LET n == Len(payments)
        q == IF goroutines = 0 THEN n ELSE n \div goroutines
    IN  /\ pc \in {"wait", "returned"} =>
                Len(workers) = (IF goroutines = 0 THEN 1 ELSE goroutines)
        /\ \A w \in Sliced :
            /\ workers[w].at # "panic"
            /\ workers[w].lo = (w - 1) * q
            /\ ~workers[w].final => workers[w].hi = workers[w].lo + q
            /\ workers[w].final => workers[w].hi = n
        /\ (pc \in {"wait", "returned"} /\ Sliced = 1 .. Len(workers)) =>
            \A j \in 1 .. n :
                Cardinality({ w \in Sliced : workers[w].lo < j /\ j <= workers[w].hi }) = 1

\* 5 payments over 3 goroutines: chunks [0,1), [1,2) and [2,5).
C9_Witness ==
    /\ pc = "returned"
    /\ Len(payments) = 5
    /\ Len(workers) = 3
    /\ workers[1].hi = 1
    /\ workers[2].lo = 1 /\ workers[2].hi = 2
    /\ workers[3].lo = 2 /\ workers[3].hi = 5

\* export.txt holds what ExportToFile writes for the accounts the service holds now.
Exported == fs[ExportTxt] = File(ExportData(accounts))

\* No phone held by the service contains one of the separators of Format A.
NoSeparators ==
    \A k \in 1 .. Len(accounts) : \A j \in 1 .. Len(accounts[k].Phone) :
        accounts[k].Phone[j] \notin {";", "|"}

\* C10 as stated: after ExportToFile on S, ImportFromFile into a new service
\* yields exactly the accounts of S in order, and ImportFromFile into S itself
\* appends a copy of every account.
C10_RoundTripAsStated ==
    [][Exported =>
        /\ ImportFromFileFresh => (last'.err = NoErr /\ fresh' = accounts)
        /\ ImportFromFile => (last'.err = NoErr /\ accounts' = accounts \o accounts)]_vars

\* The round trip of Format A does hold for a service none of whose phones
\* contains ";" or "|".
RoundTripWithoutSeparators ==
    [][(Exported /\ NoSeparators) =>
        /\ ImportFromFileFresh => (last'.err = NoErr /\ fresh' = accounts)
        /\ ImportFromFile => (last'.err = NoErr /\ accounts' = accounts \o accounts)]_vars

\* Two accounts exported, read back by a new service, then imported into the
\* exporting service, which holds each of them twice.
RoundTripReached ==
    /\ last = Call("ImportFromFile", NoErr)
    /\ Len(accounts) = 4
    /\ SubSeq(accounts, 1, 2) = SubSeq(accounts, 3, 4)
    /\ fresh = SubSeq(accounts, 1, 2)
    /\ accounts[2].Balance = 12
    /\ fs[ExportTxt] = File(ExportData(fresh))

\* The dump of every non-empty collection holds what Export writes for it now.
Dumped ==
    /\ Len(accounts) > 0 => fs[AccountsDump] = File(AccountsData(accounts))
    /\ Len(payments) > 0 => fs[PaymentsDump] = File(PaymentsData(payments))
    /\ Len(favorites) > 0 => fs[FavoritesDump] = File(FavoritesData(favorites))

\* C11 as stated: Import right after Export on the same service leaves the
\* accounts, payments and favorites as they were, in size and in every field.
C11_RoundTripAsStated ==
    [][(last.op = "Export" /\ Dumped /\ Import)
            => UNCHANGED <<accounts, payments, favorites>>]_vars

\* No phone held by the service contains the field separator of the dumps.
NoDumpSeparators ==
    \A k \in 1 .. Len(accounts) : \A j \in 1 .. Len(accounts[k].Phone) :
        accounts[k].Phone[j] \notin {";", "\n"}

\* No two accounts held have the same ID; ImportFromFile can make them so.
DistinctAccountIDs ==
    \A j, k \in 1 .. Len(accounts) : j # k => accounts[j].ID # accounts[k].ID

\* No dump is left over from an earlier export: Export writes no dump for an
\* empty collection, and a dump written before stays in the directory.
NoStaleDump ==
    /\ Len(accounts) = 0 => DumpLines(fs[AccountsDump]) = <<>>
    /\ Len(payments) = 0 => DumpLines(fs[PaymentsDump]) = <<>>
    /\ Len(favorites) = 0 => DumpLines(fs[FavoritesDump]) = <<>>

\* The round trip of Format B does hold for a service whose account IDs are
\* distinct and none of whose phones contains ";" or a line break, in a
\* directory without a dump left over for a collection that is empty now.
DumpRoundTripWithoutSeparators ==
    [][(/\ last.op = "Export"
        /\ Dumped
        /\ NoDumpSeparators
        /\ DistinctAccountIDs
        /\ NoStaleDump
        /\ Import)
            => (last'.err = NoErr /\ UNCHANGED <<accounts, payments, favorites>>)]_vars

\* Two accounts, two payments and a favorite dumped and imported back.
DumpRoundTripReached ==
    /\ last = Call("Import", NoErr)
    /\ Len(accounts) = 2
    /\ Len(payments) = 2
    /\ Len(favorites) = 1
    /\ Dumped

\* C12 as stated: a persistence call whose file cannot be opened fails: ExportToFile
\* and ImportFromFile with the file-not-found error, and Export with some error
\* when the dump of a non-empty collection cannot be opened or created.
C12_OpenFailuresAsStated ==
    [][/\ (last'.op = "ExportToFile" /\ ExportToFile(FALSE))
            => last'.err = ErrFileNotFound
       /\ (last'.op = "ImportFromFile" /\ ~fs[ExportTxt].exists /\ ImportFromFile)
            => last'.err = ErrFileNotFound
       /\ (last'.op = "Export" /\ Len(accounts) > 0 /\ Export(FALSE))
            => last'.err # NoErr]_vars

\* The part of C12 that the code does implement: the two calls of Format A fail
\* with the file-not-found error and change neither the service nor the files.
FormatAOpenFailures ==
    [][/\ (last'.op = "ExportToFile" /\ ExportToFile(FALSE))
            => (last'.err = ErrFileNotFound /\ UNCHANGED <<svc, fs>>)
       /\ (last'.op = "ImportFromFile" /\ ~fs[ExportTxt].exists /\ ImportFromFile)
            => (last'.err = ErrFileNotFound /\ UNCHANGED <<svc, fs>>)]_vars

\* C13: FindPaymentByID returns the last payment that has the ID, FindFavoriteByID
\* and FindAccountByID return the first entity that has it, and each fails with
\* its not-found error exactly when no entity has the ID.
C13_Lookups ==
    [][/\ \A paymentID \in IDs :
            (last'.op = "FindPaymentByID" /\ FindPaymentByID(paymentID)) =>
                LET hits == { k \in 1 .. Len(payments) : payments[k].ID = paymentID }
                IN  IF hits = {}
                    THEN found' = 0 /\ last'.err = ErrPaymentNotFound
                    ELSE /\ last'.err = NoErr
                         /\ found' \in hits
                         /\ \A k \in hits : k <= found'
       /\ \A favoriteID \in IDs :
            (last'.op = "FindFavoriteByID" /\ FindFavoriteByID(favoriteID)) =>
                LET hits == { k \in 1 .. Len(favorites) : favorites[k].ID = favoriteID }
                IN  IF hits = {}
                    THEN found' = 0 /\ last'.err = ErrFavoriteNotFound
                    ELSE /\ last'.err = NoErr
                         /\ found' \in hits
                         /\ \A k \in hits : k >= found'
       /\ \A accountID \in AccountIDs :
            (last'.op = "FindAccountByID" /\ FindAccountByID(accountID)) =>
                LET hits == { k \in 1 .. Len(accounts) : accounts[k].ID = accountID }
                IN  IF hits = {}
                    THEN found' = 0 /\ last'.err = ErrAccountNotFound
                    ELSE /\ last'.err = NoErr
                         /\ found' \in hits
                         /\ \A k \in hits : k >= found']_vars

\* Two payments sharing an ID, and the lookup of that ID returned the second.
C13_Witness ==
    /\ last = Call("FindPaymentByID", NoErr)
    /\ Len(payments) = 2
    /\ payments[1].ID = payments[2].ID
    /\ found = 2

\* The goroutines between mu.Lock() and mu.Unlock().
InSection == { w \in 1 .. Len(workers) : workers[w].at \in {"read", "write", "unlock"} }

\* The sum of the subtotals val of a sequence of goroutines.
RECURSIVE SumVals(_)
SumVals(ws) == IF ws = <<>> THEN 0 ELSE Head(ws).val + SumVals(Tail(ws))

\* Every goroutine has been spawned and has left the section for good.
AllFinished ==
    /\ pc \in {"wait", "returned"}
    /\ \A w \in 1 .. Len(workers) : workers[w].at \in {"exit", "done"}

\* C14: at most one goroutine at a time is between mu.Lock() and mu.Unlock(), it
\* is the one holding the mutex, and once every goroutine has finished the
\* accumulator is the sum of all the subtotals.
C14_MutualExclusion ==
    /\ Cardinality(InSection) <= 1
    /\ \A w \in InSection : mu = w
    /\ AllFinished => sum = SumVals(workers)

\* One goroutine is writing the accumulator while another waits for the mutex
\* with a subtotal of its own to add.
C14_Witness ==
    \E w, v \in 1 .. Len(workers) :
        /\ workers[w].at = "write"
        /\ workers[v].at = "lock"
        /\ workers[v].val > 0
        /\ workers[w].val > 0

\* C15: when SumPayments has returned, every goroutine it was to spawn has been
\* spawned, has added its subtotal to the accumulator and has completed, and
\* the value returned is the accumulator they left.
C15_NoPartialResult ==
    pc = "returned" =>
        /\ Len(workers) = (IF goroutines = 0 THEN 1 ELSE goroutines)
        /\ \A w \in 1 .. Len(workers) : workers[w].at = "done"
        /\ wg = 0
        /\ result = sum
        /\ sum = SumVals(workers)

\* A call with 2 goroutines on 3 payments has returned.
C15_Witness ==
    /\ pc = "returned"
    /\ goroutines = 2
    /\ Len(payments) = 3
    /\ \A w \in 1 .. Len(workers) : workers[w].at = "done"

\* C16: under fair scheduling every call of SumPayments returns, with the mutex
\* released and the WaitGroup counter at zero.
C16_Terminates ==
    <>(pc = "returned" /\ mu = 0 /\ wg = 0)

\* A call with 0 goroutines on 3 payments has returned and left the mutex free.
C16_Witness ==
    /\ pc = "returned"
    /\ goroutines = 0
    /\ Len(payments) = 3
    /\ mu = 0
    /\ wg = 0

\* The fields of a record of Format A.
Fields(rec) == Split(rec, ";")

\* A record with at least three fields whose ID and balance are integers.
WellFormed(rec) ==
    /\ Len(Fields(rec)) >= 3
    /\ Atoi(Fields(rec)[1]).err = NoErr
    /\ Atoi(Fields(rec)[3]).err = NoErr

\* A record whose ID, or whose balance, is not an integer.
Malformed(rec) ==
    \/ Atoi(Fields(rec)[1]).err # NoErr
    \/ Len(Fields(rec)) >= 3 /\ Atoi(Fields(rec)[3]).err # NoErr

\* The account a well-formed record stands for.
AccountOf(rec) ==
    [ID |-> Atoi(Fields(rec)[1]).val, Phone |-> Fields(rec)[2],
     Balance |-> Atoi(Fields(rec)[3]).val]

\* C17: when record k of the file is the first one that is not well-formed and its
\* ID or balance is not an integer, ImportFromFile returns the parse error and
\* leaves the service with the accounts of records 1 .. k-1 appended in file
\* order, and with no account of record k or of a later record.
C17_PartialImport ==
    [][(last'.op = "ImportFromFile" /\ fs[ExportTxt].exists /\ ImportFromFile) =>
        LET recs == DropLast(Split(fs[ExportTxt].data, "|"))
        IN  \A k \in 1 .. Len(recs) :
                (/\ \A j \in 1 .. (k - 1) : WellFormed(recs[j])
                 /\ Malformed(recs[k]))
                => /\ last'.err = ErrSyntax
                   /\ accounts' = accounts \o [j \in 1 .. (k - 1) |-> AccountOf(recs[j])]]_vars

\* The second record of the file has the ID "x": the call failed and the account
\* of the first record stays appended to the one the service held.
C17_Witness ==
    /\ last = Call("ImportFromFile", ErrSyntax)
    /\ fs[ExportTxt] = File(ForeignExport)
    /\ Len(accounts) = 2
    /\ accounts[2] = [ID |-> 9, Phone |-> <<"7">>, Balance |-> 5]

\* The IDs of a sequence of entities that are not in seen, each once, in the
\* order in which they first occur.
RECURSIVE FirstSeen(_, _)
FirstSeen(ents, seen) ==
    IF ents = <<>> THEN <<>>
    ELSE IF Head(ents).ID \in seen THEN FirstSeen(Tail(ents), seen)
    ELSE <<Head(ents).ID>> \o FirstSeen(Tail(ents), seen \cup {Head(ents).ID})

\* The last entity of the sequence that has the ID.
LastWith(ents, id) ==
    ents[CHOOSE k \in 1 .. Len(ents) :
            /\ ents[k].ID = id
            /\ \A j \in (k + 1) .. Len(ents) : ents[j].ID # id]

\* after is before merged by ID with the entities read: an entity whose ID was
\* read keeps its place and takes the fields read last for that ID, any other
\* entity is untouched, and every ID read that was not held adds one entity.
MergedByID(before, after, ents) ==
    LET added == FirstSeen(ents, { before[k].ID : k \in 1 .. Len(before) })
    IN  /\ Len(after) = Len(before) + Len(added)
        /\ \A k \in 1 .. Len(before) :
                after[k] = IF \E j \in 1 .. Len(ents) : ents[j].ID = before[k].ID
                           THEN LastWith(ents, before[k].ID)
                           ELSE before[k]
        /\ \A k \in 1 .. Len(added) :
                after[Len(before) + k] = LastWith(ents, added[k])

\* The lines of a dump, each split into its fields.
DumpFields(name) ==
    IF fs[name].exists
    THEN LET lines == DropLast(Split(fs[name].data, "\n"))
         IN  [k \in 1 .. Len(lines) |-> Split(lines[k], ";")]
    ELSE <<>>

\* Every line of the three dumps has the fields its type needs, integers where
\* integers are read.
DumpsWellFormed ==
    /\ \A k \in 1 .. Len(DumpFields(AccountsDump)) :
            LET f == DumpFields(AccountsDump)[k]
            IN  Len(f) >= 3 /\ Atoi(f[1]).err = NoErr /\ Atoi(f[3]).err = NoErr
    /\ \A k \in 1 .. Len(DumpFields(PaymentsDump)) :
            LET f == DumpFields(PaymentsDump)[k]
            IN  Len(f) >= 5 /\ Atoi(f[2]).err = NoErr /\ Atoi(f[3]).err = NoErr
    /\ \A k \in 1 .. Len(DumpFields(FavoritesDump)) :
            LET f == DumpFields(FavoritesDump)[k]
            IN  Len(f) >= 4 /\ Atoi(f[2]).err = NoErr /\ Atoi(f[3]).err = NoErr

\* A sequence of favorites without their names, which the dump does not hold.
Nameless(favs) == [k \in 1 .. Len(favs) |-> [favs[k] EXCEPT !.Name = <<>>]]

\* C18: Import merges by ID: an entity whose ID a record carries is overwritten in
\* place (a favorite keeps its name) and the collection does not grow for that
\* record, a record with an ID not held appends exactly one entity;
\* ImportFromFile appends one account for every record, whatever IDs are held.
C18_MergeOrAppend ==
    [][/\ (last'.op = "Import" /\ DumpsWellFormed /\ Import) =>
            LET a == DumpFields(AccountsDump)
                p == DumpFields(PaymentsDump)
                f == DumpFields(FavoritesDump)
            IN  /\ last'.err = NoErr
                /\ MergedByID(accounts, accounts',
                        [k \in 1 .. Len(a) |->
                            [ID |-> Atoi(a[k][1]).val, Phone |-> a[k][2],
                             Balance |-> Atoi(a[k][3]).val]])
                /\ MergedByID(payments, payments',
                        [k \in 1 .. Len(p) |->
                            [ID |-> p[k][1], AccountID |-> Atoi(p[k][2]).val,
                             Amount |-> Atoi(p[k][3]).val, Category |-> p[k][4],
                             Status |-> p[k][5]]])
                /\ MergedByID(Nameless(favorites), Nameless(favorites'),
                        [k \in 1 .. Len(f) |->
                            [ID |-> f[k][1], AccountID |-> Atoi(f[k][2]).val,
                             Name |-> <<>>, Amount |-> Atoi(f[k][3]).val,
                             Category |-> f[k][4]]])
                /\ \A k \in 1 .. Len(favorites) : favorites'[k].Name = favorites[k].Name
       /\ (last'.op = "ImportFromFile" /\ fs[ExportTxt].exists /\ ImportFromFile) =>
            LET recs == DropLast(Split(fs[ExportTxt].data, "|"))
            IN  (\A k \in 1 .. Len(recs) : WellFormed(recs[k])) =>
                    /\ last'.err = NoErr
                    /\ accounts' = accounts \o [k \in 1 .. Len(recs) |-> AccountOf(recs[k])]]_vars

\* A new service registered one account and imported the dump of two accounts,
\* two payments and a favorite: its account was overwritten with the phone and
\* balance dumped for ID 1, and the second account, the payments and the
\* favorite were appended.
C18_Witness ==
    /\ last = Call("Import", NoErr)
    /\ nextAccountID = 1
    /\ Len(accounts) = 2
    /\ Len(payments) = 2
    /\ Len(favorites) = 1
    /\ favorites[1].Name = <<>>
    /\ fs[AccountsDump] = File(AccountsData(accounts))
    /\ accounts[1].Phone # <<"8">>

\* The IDs that payments and favorites hold.
UsedIDs ==
    { payments[k].ID : k \in 1 .. Len(payments) }
        \cup { favorites[k].ID : k \in 1 .. Len(favorites) }

\* This step is what a call returning err does with the stored account, amount
\* and category: it succeeds exactly when the first account with that ID covers
\* the amount, then debits it and appends one InProgress payment with an unused
\* ID, leaving every other payment and every favorite as it was; otherwise it
\* fails with NotEnoughBalance and changes nothing.
PaidAgain(accountID, amount, category) ==
    LET a == CHOOSE k \in 1 .. Len(accounts) :
                /\ accounts[k].ID = accountID
                /\ \A j \in 1 .. (k - 1) : accounts[j].ID # accountID
    IN  IF accounts[a].Balance >= amount
        THEN /\ last'.err = NoErr
             /\ accounts' = [accounts EXCEPT ![a].Balance = @ - amount]
             /\ Len(payments') = Len(payments) + 1
             /\ SubSeq(payments', 1, Len(payments)) = payments
             /\ payments'[Len(payments')].ID \notin UsedIDs
             /\ payments'[Len(payments')] =
                    [ID |-> payments'[Len(payments')].ID, AccountID |-> accountID,
                     Amount |-> amount, Category |-> category,
                     Status |-> PaymentStatusInProgress]
             /\ favorites' = favorites
             /\ nextAccountID' = nextAccountID
        ELSE /\ last'.err = ErrNotEnoughtBalance
             /\ UNCHANGED svc

\* C19: Repeat and PayFromFavorite pay again the stored account, amount and
\* category of the payment or favorite looked up, whatever the status of the
\* payment repeated; a lookup that finds nothing fails and changes nothing.
C19_PayAgain ==
    [][/\ \A paymentID \in IDs :
            (last'.op = "Repeat" /\ Repeat(paymentID)) =>
                IF \E k \in 1 .. Len(payments) : payments[k].ID = paymentID
                THEN LET pay == payments[CHOOSE k \in 1 .. Len(payments) :
                                    payments[k].ID = paymentID]
                     IN  PaidAgain(pay.AccountID, pay.Amount, pay.Category)
                ELSE last'.err = ErrPaymentNotFound /\ UNCHANGED svc
       /\ \A favoriteID \in IDs :
            (last'.op = "PayFromFavorite" /\ PayFromFavorite(favoriteID)) =>
                IF \E k \in 1 .. Len(favorites) : favorites[k].ID = favoriteID
                THEN LET fav == favorites[CHOOSE k \in 1 .. Len(favorites) :
                                    favorites[k].ID = favoriteID]
                     IN  PaidAgain(fav.AccountID, fav.Amount, fav.Category)
                ELSE last'.err = ErrFavoriteNotFound /\ UNCHANGED svc]_vars

\* A rejected payment was repeated: the service holds it, still Fail, and the
\* new InProgress payment of the same account and amount.
C19_Witness ==
    /\ last = Call("Repeat", NoErr)
    /\ Len(payments) = 2
    /\ payments[1].Status = PaymentStatusFail
    /\ payments[2].Status = PaymentStatusInProgress
    /\ payments[2].Amount = payments[1].Amount
    /\ payments[2].AccountID = payments[1].AccountID
    /\ payments[2].ID # payments[1].ID

\* The balance of every account but those with the given ID stays as it was.
OnlyTouches(accountID) ==
    /\ Len(accounts') = Len(accounts)
    /\ \A k \in 1 .. Len(accounts) :
            accounts[k].ID # accountID => accounts'[k].Balance = accounts[k].Balance

\* The balances are as they were, whether or not an account was added.
BalancesKept ==
    \A k \in 1 .. Len(accounts) : accounts'[k].Balance = accounts[k].Balance

\* C20: after every step of the seven ledger operations each balance is the sum
\* of the account's successful deposits, minus the amounts of all the payments
\* that reference it, plus the amount credited by every successful Reject; a
\* failed call and FavoritePayment change no balance; and a call changes no
\* balance but that of the account it targets.
C20_ExactAccounting ==
    [][/\ \A a \in 1 .. Len(accounts') :
            LET Mine(p) == p.AccountID = accounts'[a].ID
            IN  accounts'[a].Balance =
                    (deposited'[a] - SumAmount(SelectSeq(payments', Mine))) + refunded'[a]
       /\ last'.err # NoErr => BalancesKept
       /\ last'.op \in {"FavoritePayment", "RegisterAccount"} => BalancesKept
       /\ \A accountID \in AccountIDs, amount \in Amounts :
            /\ (last'.op = "Deposit" /\ Deposit(accountID, amount))
                    => OnlyTouches(accountID)
            /\ \A category \in Categories :
                    (last'.op = "Pay" /\ Pay(accountID, amount, category))
                        => OnlyTouches(accountID)
       /\ \A id \in IDs :
            /\ \A k \in 1 .. Len(payments) :
                    (/\ last'.op \in {"Reject", "Repeat"}
                     /\ payments[k].ID = id
                     /\ Reject(id) \/ Repeat(id))
                        => OnlyTouches(payments[k].AccountID)
            /\ \A k \in 1 .. Len(favorites) :
                    (/\ last'.op = "PayFromFavorite"
                     /\ favorites[k].ID = id
                     /\ PayFromFavorite(id))
                        => OnlyTouches(favorites[k].AccountID)]_vars

\* Two accounts; the second deposited, paid, had the payment rejected and then
\* paid again from a favorite, while the first never held anything.
C20_Witness ==
    /\ last = Call("PayFromFavorite", NoErr)
    /\ Len(accounts) = 2
    /\ accounts[1].Balance = 0 /\ deposited[1] = 0
    /\ deposited[2] > 0
    /\ refunded[2] > 0
    /\ accounts[2].Balance = (deposited[2] - SumAmount(payments)) + refunded[2]

====
